---- MODULE Spec2Model ----
(***************************************************************************)
(* Model of tools/mock_j2534/op20pt32.c: the mock OpenPort 2.0 J2534 DLL.  *)
(* The state is the DLL's static storage (the pending response buffer, its *)
(* length and flag, the device and channel ids); one action per exported   *)
(* PassThru entry point.  Each action also records the call it models      *)
(* (call), what it returned (ret), what it wrote through its pointer       *)
(* arguments (out) and the key line it logged (observation).               *)
(***************************************************************************)
EXTENDS Integers, Sequences, FiniteSets, TLC

\* ------------------------------------------------------------------ bounds
\* Bytes of PASSTHRU_MSG.Data the model keeps (the code's array has 4128).
DataLen == 9
\* Largest number of frames one PassThruWriteMsgs call carries in the model.
MaxMsgs == 2
\* Largest *pNumMsgs a PassThruReadMsgs caller asks for in the model.
MaxReadCount == 2

\* ------------------------------------------------------- program constants
STATUS_NOERROR == 0
STATUS_ERR_FAILED == 31                \* 0x1F
ISO15765 == 6
SVC_DiagnosticSessionControl == 16   \* 0x10
SVC_SecurityAccess == 39             \* 0x27
SVC_RequestDownload == 52            \* 0x34
SUB_requestSeed == 3
SUB_sendKey == 4
MIN_UDS_LEN == 6
MIN_KEY_LEN == 8
POSITIVE_OFFSET == 64                \* 0x40
SEED == 4660                         \* 0x1234
KEY_MULT == 16513                    \* 0x4081

BYTE(x) == x % 256
WORD(x) == x % 65536

\* A DWORD is kept as two 16-bit halves, so that 32-bit arithmetic wraps as in C.
DWORD(x) == [hi |-> (x \div 65536) % 65536, lo |-> x % 65536]

\* The exact 32-bit product of two 16-bit values, as halves.
Mul16(x, y) ==
    LET p0 == x * (y % 256)
        p1 == x * (y \div 256)
        losum == (p0 % 65536) + (p1 % 256) * 256
    IN  [hi |-> (p0 \div 65536) + (p1 \div 256) + (losum \div 65536),
         lo |-> losum % 65536]

\* a * b in unsigned 32-bit arithmetic; carry says the exact product needs more bits.
MulDWORD(a, b) ==
    LET ll == Mul16(a.lo, b.lo)
        lh == Mul16(a.lo, b.hi)
        hl == Mul16(a.hi, b.lo)
        hisum == ll.hi + lh.lo + hl.lo
    IN  [hi |-> hisum % 65536, lo |-> ll.lo,
         carry |-> hisum >= 65536 \/ lh.hi # 0 \/ hl.hi # 0 \/ (a.hi # 0 /\ b.hi # 0)]

\* a + b in unsigned 32-bit arithmetic; carry says the exact sum needs more bits.
AddDWORD(a, b) ==
    LET losum == a.lo + b.lo
        hisum == a.hi + b.hi + (losum \div 65536)
    IN  [hi |-> hisum % 65536, lo |-> losum % 65536, carry |-> hisum >= 65536]

Bytes == 0..255

\* ------------------------------------------------------------ PASSTHRU_MSG
\* C index i of Data is Data[i + 1] here.
D(data, i) == data[i + 1]

PASSTHRU_MSG(proto, rx, tx, ts, size, extra, data) ==
    [ProtocolID |-> proto, RxStatus |-> rx, TxFlags |-> tx, Timestamp |-> ts,
     DataSize |-> size, ExtraDataIndex |-> extra, Data |-> data]

sizeof_PASSTHRU_MSG == 6 * 4 + DataLen

\* memset(msg, 0, sizeof(PASSTHRU_MSG)); also the content of zeroed statics.
ZeroMsg == PASSTHRU_MSG(0, 0, 0, 0, 0, 0, [i \in 1..DataLen |-> 0])

\* The CAN id bytes build_can_response stamps into Data[0..3].
ResponseCanId == <<0, 0, 7, 232>>

build_can_response_mut_noclear(prev, uds_payload, uds_len) ==
    [prev EXCEPT !.ProtocolID = ISO15765,
                 !.Data = [i \in 1..DataLen |->
                             IF i <= 4 THEN ResponseCanId[i]
                             ELSE IF i <= 4 + uds_len THEN uds_payload[i - 4]
                             ELSE prev.Data[i]],
                 !.DataSize = 4 + uds_len,
                 !.RxStatus = 0]

\* build_can_response(msg, uds_payload, uds_len): prev is *msg before the call.
build_can_response(prev, uds_payload, uds_len) ==
    [ZeroMsg EXCEPT !.ProtocolID = ISO15765,
                    !.Data = [i \in 1..DataLen |->
                                IF i <= 4 THEN ResponseCanId[i]
                                ELSE IF i <= 4 + uds_len THEN uds_payload[i - 4]
                                ELSE 0],
                    !.DataSize = 4 + uds_len,
                    !.RxStatus = 0]

\* ------------------------------------------------- PassThruWriteMsgs, pure part
\* if (!pMsg || !pNumMsgs || *pNumMsgs == 0) return STATUS_NOERROR;
WriteReturnsEarly(hasMsg, hasNum, num) == ~hasMsg \/ ~hasNum \/ num = 0

FirstMsg_mut_last(pMsg) == pMsg[Len(pMsg)]

\* PASSTHRU_MSG *m = &pMsg[0];
FirstMsg(pMsg) == pMsg[1]

HasUdsPayload_mut_any(len) == len >= 0

HasUdsPayload_mut_five(len) == len >= MIN_UDS_LEN - 1

\* if (len >= 6)
HasUdsPayload(len) == len >= MIN_UDS_LEN

uds_svc_of_mut_offset(data) == D(data, 3)

\* BYTE uds_svc = data[5];
uds_svc_of(data) == D(data, 5)

\* BYTE uds_sf = data[6];  (read whatever len is)
uds_sf_of(data) == D(data, 6)

UdsRule_mut_seed_needs_len(uds_svc, uds_sf, len) ==
    IF uds_svc = SVC_DiagnosticSessionControl THEN "DiagnosticSessionControl"
    ELSE IF uds_svc = SVC_SecurityAccess /\ uds_sf = SUB_requestSeed /\ len = 7
      THEN "requestSeed"
    ELSE IF uds_svc = SVC_SecurityAccess /\ uds_sf = SUB_sendKey /\ len >= MIN_KEY_LEN
      THEN "sendKey"
    ELSE IF uds_svc = SVC_RequestDownload THEN "RequestDownload"
    ELSE "generic"

\* The if / else-if chain of PassThruWriteMsgs: the branch that runs.
UdsRule(uds_svc, uds_sf, len) ==
    IF uds_svc = SVC_DiagnosticSessionControl THEN "DiagnosticSessionControl"
    ELSE IF uds_svc = SVC_SecurityAccess /\ uds_sf = SUB_requestSeed THEN "requestSeed"
    ELSE IF uds_svc = SVC_SecurityAccess /\ uds_sf = SUB_sendKey /\ len >= MIN_KEY_LEN
      THEN "sendKey"
    ELSE IF uds_svc = SVC_RequestDownload THEN "RequestDownload"
    ELSE "generic"

GenericService_mut_nowrap(uds_svc) == uds_svc + POSITIVE_OFFSET

\* (BYTE)(uds_svc + 0x40)
GenericService(uds_svc) == BYTE(uds_svc + POSITIVE_OFFSET)

UdsResp_mut_fixed_03(rule, uds_svc, uds_sf) ==
    CASE rule = "DiagnosticSessionControl" -> <<2, 80, 3>>
      [] rule = "requestSeed"              -> <<4, 103, 3, 18, 52>>
      [] rule = "sendKey"                  -> <<2, 103, 4>>
      [] rule = "RequestDownload"          -> <<3, 116, 32, 15>>
      [] OTHER                             -> <<2, GenericService(uds_svc), uds_sf>>

\* BYTE resp[] = {...} of the branch that runs.
UdsResp(rule, uds_svc, uds_sf) ==
    CASE rule = "DiagnosticSessionControl" -> <<2, 80, uds_sf>>        \* 02 50 sf
      [] rule = "requestSeed"              -> <<4, 103, 3, 18, 52>>    \* 04 67 03 12 34
      [] rule = "sendKey"                  -> <<2, 103, 4>>            \* 02 67 04
      [] rule = "RequestDownload"          -> <<3, 116, 32, 15>>       \* 03 74 20 0F
      [] OTHER                             -> <<2, GenericService(uds_svc), uds_sf>>

\* The uds_len each branch passes to build_can_response: 3, 5, 3, 4, 3.
UdsRespLen(rule) ==
    CASE rule = "requestSeed" -> 5
      [] rule = "RequestDownload" -> 4
      [] OTHER -> 3

key16_mut_swapped(kh, kl) == WORD(kl * 256 + kh)

\* WORD key = ((WORD)kh << 8) | kl;  (the shifted byte has no low bits, so | is +)
key16(kh, kl) == WORD(kh * 256 + kl)

read_key_mut_noadd == MulDWORD(DWORD(SEED), DWORD(KEY_MULT)).lo

\* DWORD read_key = ((DWORD)0x1234 * 0x4081 + 0x1234) & 0xFFFF;
read_key == AddDWORD(MulDWORD(DWORD(SEED), DWORD(KEY_MULT)), DWORD(SEED)).lo

KeyMatches_mut_high_only(key, rk) == key \div 256 = WORD(rk) \div 256

\* (key == (WORD)read_key)
KeyMatches(key, rk) == key = WORD(rk)

NoObservation ==
    [logged |-> FALSE, kh |-> 0, kl |-> 0, key |-> 0, read_key |-> 0, matches |-> FALSE]

\* The sendKey branch's log lines: KH, KL, key16, the formula's value, the verdict.
KeyObservation(data) ==
    LET kh == D(data, 7)
        kl == D(data, 8)
        key == key16(kh, kl)
    IN  [logged |-> TRUE, kh |-> kh, kl |-> kl, key |-> key, read_key |-> read_key,
         matches |-> KeyMatches(key, read_key)]

\* ------------------------------------------------------------------- state
VARIABLES
    pending_response,      \* static BYTE pending_response[sizeof(PASSTHRU_MSG)], read as a PASSTHRU_MSG
    pending_response_len,  \* static DWORD pending_response_len
    has_pending,           \* static int has_pending
    g_device_id,           \* static DWORD g_device_id
    g_channel_id,          \* static DWORD g_channel_id
    call,                  \* the entry point called last, with its arguments
    ret,                   \* what that call returned
    out,                   \* what that call wrote through its pointer arguments
    branch,                \* the branch of the rule chain that call ran ("none" if none)
    observation,           \* the key lines that call logged
    h_written,             \* history: << the first frame of the last write whose first
                           \* frame declared >= 6 bytes >>, or << >> before any
    h_writes,              \* history: such writes since the last read that asked for
                           \* >= 1 message (counted up to 2)
    h_reads,               \* history: reads that asked for >= 1 message since the
                           \* last such write (counted up to 2)
    writer,                \* a thread inside PassThruWriteMsgs: the statement it is
                           \* at, the frame it was given and its local resp[]
    reader                 \* a thread inside PassThruReadMsgs: the statement it is
                           \* at, the caller's pMsg[0] and *pNumMsgs

vars == <<pending_response, pending_response_len, has_pending, g_device_id, g_channel_id,
          call, ret, out, branch, observation, h_written, h_writes, h_reads,
          writer, reader>>

mailbox == <<pending_response, pending_response_len, has_pending>>
ids == <<g_device_id, g_channel_id>>
history == <<h_written, h_writes, h_reads>>
threads == <<writer, reader>>

Call(name, hasMsg, msgs, hasNum, num, hasOut) ==
    [name |-> name, hasMsg |-> hasMsg, msgs |-> msgs,
     hasNum |-> hasNum, num |-> num, hasOut |-> hasOut]

\* Nothing written through any pointer; num is *pNumMsgs as the caller left it.
\* No thread is inside PassThruWriteMsgs / PassThruReadMsgs.
WriterIdle == [pc |-> "idle", m |-> ZeroMsg, resp |-> <<>>]
ReaderIdle == [pc |-> "idle", msg |-> ZeroMsg, num |-> 0, wrote |-> FALSE]

NoOut(num) ==
    [wroteMsg |-> FALSE, msg |-> ZeroMsg, num |-> num, wroteId |-> FALSE, id |-> 0,
     text |-> <<>>]

Init ==
    /\ pending_response = ZeroMsg
    /\ pending_response_len = 0
    /\ has_pending = 0
    /\ g_device_id = 1
    /\ g_channel_id = 1
    /\ call = Call("none", FALSE, <<>>, FALSE, 0, FALSE)
    /\ ret = STATUS_NOERROR
    /\ out = NoOut(0)
    /\ branch = "none"
    /\ observation = NoObservation
    /\ h_written = <<>>
    /\ h_writes = 0
    /\ h_reads = 0
    /\ writer = WriterIdle
    /\ reader = ReaderIdle

\* ------------------------------------------------------- PassThruWriteMsgs
PassThruWriteMsgs_status_mut_short_fails(hasMsg, hasNum, num, pMsg) ==
    IF hasMsg /\ hasNum /\ num > 0 /\ pMsg[1].DataSize < 6 THEN STATUS_ERR_FAILED ELSE STATUS_NOERROR

\* Every return of PassThruWriteMsgs is return STATUS_NOERROR.
PassThruWriteMsgs_status(hasMsg, hasNum, num, pMsg) == STATUS_NOERROR

PassThruWriteMsgs(hasMsg, pMsg, hasNum, num) ==
    /\ call' = Call("PassThruWriteMsgs", hasMsg, pMsg, hasNum, num, FALSE)
    /\ ret' = PassThruWriteMsgs_status(hasMsg, hasNum, num, pMsg)
    /\ out' = NoOut(num)
    /\ UNCHANGED <<ids, threads>>
    /\ IF WriteReturnsEarly(hasMsg, hasNum, num)
       THEN /\ UNCHANGED mailbox
            /\ branch' = "none"
            /\ observation' = NoObservation
       ELSE LET m == FirstMsg(pMsg)
                data == m.Data
                len == m.DataSize
            IN  IF HasUdsPayload(len)
                THEN LET uds_svc == uds_svc_of(data)
                         uds_sf == uds_sf_of(data)
                         rule == UdsRule(uds_svc, uds_sf, len)
                     IN  /\ pending_response' =
                               build_can_response(pending_response,
                                                  UdsResp(rule, uds_svc, uds_sf),
                                                  UdsRespLen(rule))
                         /\ pending_response_len' = sizeof_PASSTHRU_MSG
                         /\ has_pending' = 1
                         /\ branch' = rule
                         /\ observation' = IF rule = "sendKey" THEN KeyObservation(data)
                                           ELSE NoObservation
                ELSE /\ UNCHANGED mailbox
                     /\ branch' = "none"
                     /\ observation' = NoObservation
    /\ IF hasMsg /\ hasNum /\ num >= 1 /\ pMsg[1].DataSize >= 6
       THEN /\ h_written' = <<pMsg[1]>>
            /\ h_writes' = IF h_reads > 0 THEN 1
                           ELSE IF h_writes < 2 THEN h_writes + 1 ELSE h_writes
            /\ h_reads' = 0
       ELSE UNCHANGED history

\* -------------------------------------------------------- PassThruReadMsgs
ReadDelivers_mut_ignores_flag(pending, num) == num > 0

\* if (has_pending && *pNumMsgs > 0)
ReadDelivers(pending, num) == pending # 0 /\ num > 0

FlagAfterTake_mut_keeps(pending) == pending

\* has_pending = 0;
FlagAfterTake(pending) == 0

PassThruReadMsgs(hasMsg, hasNum, num) ==
    /\ call' = Call("PassThruReadMsgs", hasMsg, <<>>, hasNum, num, FALSE)
    /\ ret' = STATUS_NOERROR
    /\ branch' = "none"
    /\ observation' = NoObservation
    /\ UNCHANGED <<ids, threads, pending_response, pending_response_len>>
    /\ IF ~hasMsg \/ ~hasNum
       THEN /\ out' = NoOut(num)
            /\ UNCHANGED has_pending
       ELSE IF ReadDelivers(has_pending, num)
            THEN /\ out' = [NoOut(1) EXCEPT !.wroteMsg = TRUE, !.msg = pending_response]
                 /\ has_pending' = FlagAfterTake(has_pending)
            ELSE /\ out' = NoOut(0)
                 /\ UNCHANGED has_pending
    /\ UNCHANGED <<h_written, h_writes>>
    /\ h_reads' = IF hasMsg /\ hasNum /\ num >= 1 /\ h_reads < 2 THEN h_reads + 1
                  ELSE h_reads

\* -------------------------------------------------- the fixed-reply entry points
Stub_mut_flushes(c, o) ==
    /\ call' = c
    /\ ret' = STATUS_NOERROR
    /\ out' = o
    /\ branch' = "none"
    /\ observation' = NoObservation
    /\ has_pending' = 0
    /\ UNCHANGED <<pending_response, pending_response_len, ids, history, threads>>

\* A call that touches neither the mailbox nor the ids and logs no key.  The
\* handle, flag, baud-rate, pin and timeout arguments of the entry points are
\* never read except to be logged, and are not modelled.
Stub(c, o) ==
    /\ call' = c
    /\ ret' = STATUS_NOERROR
    /\ out' = o
    /\ branch' = "none"
    /\ observation' = NoObservation
    /\ UNCHANGED <<mailbox, ids, history, threads>>

IdOut(hasOut, id) ==
    IF hasOut THEN [NoOut(0) EXCEPT !.wroteId = TRUE, !.id = id] ELSE NoOut(0)

OpenedId_mut_counts(id) == id + 1

\* *pDeviceID = g_device_id;  *pChannelID = g_channel_id;
OpenedId(id) == id

PassThruOpen(hasOut) ==
    Stub(Call("PassThruOpen", FALSE, <<>>, FALSE, 0, hasOut),
         IdOut(hasOut, OpenedId(g_device_id)))

PassThruClose ==
    Stub(Call("PassThruClose", FALSE, <<>>, FALSE, 0, FALSE), NoOut(0))

PassThruConnect(hasOut) ==
    Stub(Call("PassThruConnect", FALSE, <<>>, FALSE, 0, hasOut),
         IdOut(hasOut, OpenedId(g_channel_id)))

PassThruDisconnect ==
    Stub(Call("PassThruDisconnect", FALSE, <<>>, FALSE, 0, FALSE), NoOut(0))

\* *pFilterID = 1;
PassThruStartMsgFilter(hasOut) ==
    Stub(Call("PassThruStartMsgFilter", FALSE, <<>>, FALSE, 0, hasOut), IdOut(hasOut, 1))

PassThruStopMsgFilter ==
    Stub(Call("PassThruStopMsgFilter", FALSE, <<>>, FALSE, 0, FALSE), NoOut(0))

PassThruSetProgrammingVoltage ==
    Stub(Call("PassThruSetProgrammingVoltage", FALSE, <<>>, FALSE, 0, FALSE), NoOut(0))

\* The three strcpy calls, each under its own null check (all three pointers given or none).
PassThruReadVersion(hasOut) ==
    Stub(Call("PassThruReadVersion", FALSE, <<>>, FALSE, 0, hasOut),
         IF hasOut THEN [NoOut(0) EXCEPT !.text = <<"2.0.0", "2.0.0-mock", "04.04">>]
         ELSE NoOut(0))

PassThruGetLastError(hasOut) ==
    Stub(Call("PassThruGetLastError", FALSE, <<>>, FALSE, 0, hasOut),
         IF hasOut THEN [NoOut(0) EXCEPT !.text = <<"No error">>] ELSE NoOut(0))

PassThruIoctl ==
    Stub(Call("PassThruIoctl", FALSE, <<>>, FALSE, 0, FALSE), NoOut(0))

\* ------------------------------------------------------------------ inputs
\* A request frame as a tester lays it out: CAN id 00 00 07 arb, the ISO 15765
\* length byte, service, subfunction, two key bytes; DataSize says how many of
\* these bytes the frame declares, the rest is what the caller's buffer holds.
Req(arb, len, svc, sf, kh, kl) ==
    PASSTHRU_MSG(ISO15765, 0, 0, 0, len, 0,
                 [i \in 1..DataLen |->
                    CASE i = 1 -> 0 [] i = 2 -> 0 [] i = 3 -> 7 [] i = 4 -> arb
                      [] i = 5 -> IF len > 5 THEN len - 5 ELSE 0
                      [] i = 6 -> svc [] i = 7 -> sf [] i = 8 -> kh [] i = 9 -> kl
                      [] OTHER -> 0])

Services == {16, 39, 52, 63, 153, 192}      \* 0x10, 0x27, 0x34, 0x3F, 0x99, 0xC0
SubFns == {1, 3}

RuleFrames == {Req(224, 7, svc, sf, 0, 0) : svc \in Services, sf \in SubFns}
\* SecurityAccess frames of every declared length from 5 up, over a buffer that
\* holds a whole sendKey or requestSeed request; and an empty frame.
LenFrames ==
    {Req(224, n, 39, sf, 170, 187) : n \in (MIN_UDS_LEN - 1)..DataLen, sf \in {3, 4}}
        \cup {Req(224, 0, 16, 3, 0, 0)}
\* sendKey with the key the read-session formula gives (3E 68) and near misses.
KeyFrames == {Req(224, 9, 39, 4, 62, 104), Req(224, 9, 39, 4, 62, 187),
              Req(224, 9, 39, 4, 170, 104)}
ArbFrames == {Req(225, 7, 16, 3, 0, 0), Req(225, 9, 39, 3, 170, 187)}
Frames == RuleFrames \cup LenFrames \cup KeyFrames \cup ArbFrames

\* Calls carrying several frames: a short or a valid first frame, then others.
FirstOfMany == {Req(224, 5, 39, 3, 0, 0), Req(224, 7, 16, 3, 0, 0)}
LaterFrames == {Req(224, 7, 39, 3, 0, 0), Req(224, 3, 16, 1, 0, 0)}
ManyFrames ==
    {s \in UNION {[1..n -> FirstOfMany \cup LaterFrames] : n \in 2..MaxMsgs} :
        /\ s[1] \in FirstOfMany
        /\ \A i \in 2..Len(s) : s[i] \in LaterFrames}

\* ---------------------------------------------------------- specification
Write ==
    \/ \E f \in Frames : PassThruWriteMsgs(TRUE, <<f>>, TRUE, 1)
    \/ \E s \in ManyFrames : PassThruWriteMsgs(TRUE, s, TRUE, Len(s))
    \/ \E f \in FirstOfMany :
          \/ PassThruWriteMsgs(TRUE, <<f>>, TRUE, 0)
          \/ PassThruWriteMsgs(TRUE, <<f>>, FALSE, 0)
    \/ PassThruWriteMsgs(FALSE, <<>>, TRUE, 1)

Read ==
    \/ \E n \in 0..MaxReadCount : PassThruReadMsgs(TRUE, TRUE, n)
    \/ PassThruReadMsgs(FALSE, TRUE, 1)
    \/ PassThruReadMsgs(TRUE, FALSE, 0)

Lifecycle ==
    \/ \E p \in BOOLEAN : PassThruOpen(p)
    \/ PassThruClose
    \/ \E p \in BOOLEAN : PassThruConnect(p)
    \/ PassThruDisconnect
    \/ \E p \in BOOLEAN : PassThruStartMsgFilter(p)
    \/ PassThruStopMsgFilter
    \/ PassThruSetProgrammingVoltage
    \/ \E p \in BOOLEAN : PassThruReadVersion(p)
    \/ \E p \in BOOLEAN : PassThruGetLastError(p)
    \/ PassThruIoctl

Next == Write \/ Read \/ Lifecycle

Spec == Init /\ [][Next]_vars

\* ------------------------------------------------ vocabulary of the properties
IsWrite == call.name = "PassThruWriteMsgs"
IsRead == call.name = "PassThruReadMsgs"
\* The last call was a write that carried at least one frame.
WroteFrame == IsWrite /\ call.hasMsg /\ call.hasNum /\ call.num >= 1
FirstFrame == call.msgs[1]
\* The last call was a read with both pointers given, asking for >= 1 message.
AskedRead == IsRead /\ call.hasMsg /\ call.hasNum /\ call.num >= 1
\* The diagnostic bytes of a frame: length byte and what follows, up to DataSize.
Payload(msg) == SubSeq(msg.Data, 5, msg.DataSize)
\* The response the write path synthesizes for request frame f.
ResponseTo(f) ==
    LET rule == UdsRule(uds_svc_of(f.Data), uds_sf_of(f.Data), f.DataSize)
    IN  build_can_response(ZeroMsg, UdsResp(rule, uds_svc_of(f.Data), uds_sf_of(f.Data)),
                           UdsRespLen(rule))
SessionControlRequest == Req(224, 7, 16, 3, 0, 0)     \* 00 00 07 E0 02 10 03

\* C1 (take-once): a read before any request of >= 6 bytes was written reports 0
\* messages; the first read asking for >= 1 message after such a write reports
\* exactly 1 message and hands over the response synthesized for the written frame
\* (payload 02 50 03 for 00 00 07 E0 02 10 03) and empties the mailbox; a further
\* read with no write in between reports 0 messages.
C1_TakeOnce ==
    /\ (call.name = "none") => has_pending = 0
    /\ (IsRead /\ call.hasMsg /\ call.hasNum /\ h_written = <<>>) =>
           (out.num = 0 /\ ~out.wroteMsg)
    /\ (AskedRead /\ h_written # <<>> /\ h_reads = 1) =>
           /\ out.num = 1
           /\ out.wroteMsg
           /\ out.msg = ResponseTo(h_written[1])
           /\ (h_written[1] = SessionControlRequest => Payload(out.msg) = <<2, 80, 3>>)
           /\ has_pending = 0
    /\ (AskedRead /\ h_reads = 2) => (out.num = 0 /\ ~out.wroteMsg /\ has_pending = 0)

C1_Witness ==
    /\ AskedRead
    /\ h_written = <<SessionControlRequest>>
    /\ h_reads = 2
    /\ out.num = 0
    /\ Payload(pending_response) = <<2, 80, 3>>

\* C2 (last write wins): after two writes of requests of >= 6 bytes with no read
\* asking for a message in between, the mailbox holds exactly the response to the
\* second request (the whole buffer, nothing of the first); the next read returns
\* exactly that response, and the read after it reports 0 messages.
C2_LastWriteWins ==
    /\ has_pending \in {0, 1}
    /\ (h_writes = 2 /\ h_reads = 0) =>
           (has_pending = 1 /\ pending_response = ResponseTo(h_written[1]))
    /\ (AskedRead /\ h_writes = 2 /\ h_reads = 1) =>
           (out.num = 1 /\ out.msg = ResponseTo(h_written[1]) /\ has_pending = 0)
    /\ (AskedRead /\ h_writes = 2 /\ h_reads = 2) => (out.num = 0 /\ ~out.wroteMsg)

C2_Witness ==
    /\ AskedRead
    /\ h_writes = 2
    /\ h_reads = 1
    /\ h_written = <<SessionControlRequest>>
    /\ out.num = 1
    /\ Payload(out.msg) = <<2, 80, 3>>

\* C3 (short-frame drop): a write whose first frame declares fewer than 6 bytes
\* runs no branch, leaves the mailbox as it was and returns STATUS_NOERROR; and a
\* read from an Empty mailbox reports 0 messages, so the read following a short
\* write into an Empty mailbox reports 0.
C3_ShortFrameStep ==
    /\ (IsWrite' /\ WroteFrame' /\ FirstFrame'.DataSize < 6) =>
           /\ UNCHANGED mailbox
           /\ branch' = "none"
           /\ ret' = STATUS_NOERROR
    /\ (IsRead' /\ call'.hasMsg /\ call'.hasNum /\ has_pending = 0) =>
           (out'.num = 0 /\ ~out'.wroteMsg /\ has_pending' = 0)
C3_ShortFrameDrop == [][C3_ShortFrameStep]_vars

C3_Witness ==
    /\ WroteFrame
    /\ FirstFrame.DataSize = 5
    /\ uds_svc_of(FirstFrame.Data) = 39
    /\ has_pending = 0
    /\ h_written = <<>>
    /\ ret = STATUS_NOERROR

\* C4 (seed is constant): every written request of >= 7 bytes with service 0x27 and
\* subfunction 0x03 leaves the mailbox Full with payload 04 67 03 12 34, whatever
\* was written or read before and whatever the CAN id and trailing bytes.
C4_SeedConstant ==
    (WroteFrame /\ FirstFrame.DataSize >= 7
       /\ D(FirstFrame.Data, 5) = 39 /\ D(FirstFrame.Data, 6) = 3) =>
        /\ has_pending = 1
        /\ Payload(pending_response) = <<4, 103, 3, 18, 52>>
        /\ ~observation.logged

C4_Witness ==
    /\ WroteFrame
    /\ FirstFrame = Req(225, 9, 39, 3, 170, 187)
    /\ h_writes = 2
    /\ Payload(pending_response) = <<4, 103, 3, 18, 52>>

\* ------------------------------------------- one request from the full byte range
\* The first request the DLL is given, around reads that ask for one message.
\* Every service and subfunction byte in a 7-byte request, and every service with
\* the subfunctions the rules name in requests of 6, 8 and 9 declared bytes.
WideSubFns == {0, 3, 4, 255}
WideLens == {6, 8, 9}
FirstRuleRequest ==
    /\ h_written = <<>>
    /\ \/ \E svc \in Bytes, sf \in Bytes :
             PassThruWriteMsgs(TRUE, <<Req(224, 7, svc, sf, 0, 0)>>, TRUE, 1)
       \/ \E n \in WideLens, svc \in Bytes, sf \in WideSubFns :
             PassThruWriteMsgs(TRUE, <<Req(224, n, svc, sf, 170, 187)>>, TRUE, 1)

\* Every key byte pair in a sendKey request 27 04 KH KL.
FirstKeyRequest ==
    /\ h_written = <<>>
    /\ \E kh \in Bytes, kl \in Bytes :
          PassThruWriteMsgs(TRUE, <<Req(224, 9, 39, 4, kh, kl)>>, TRUE, 1)

ReadOne == PassThruReadMsgs(TRUE, TRUE, 1)

NextRules == FirstRuleRequest \/ ReadOne
SpecRules == Init /\ [][NextRules]_vars

NextKeys == FirstKeyRequest \/ ReadOne
SpecKeys == Init /\ [][NextKeys]_vars

\* C5 (key observation does not block acceptance): every sendKey request
\* 27 04 KH KL, with no requestSeed before it, leaves the mailbox Full with one and
\* the same response, payload 02 67 04, whether or not the key matches the
\* candidate; the key logged is KH * 256 + KL.
AcceptedKeyResponse ==
    PASSTHRU_MSG(6, 0, 0, 0, 7, 0,
                 [i \in 1..DataLen |->
                    CASE i = 3 -> 7 [] i = 4 -> 232 [] i = 5 -> 2 [] i = 6 -> 103
                      [] i = 7 -> 4 [] OTHER -> 0])
C5_KeyAlwaysAccepted ==
    (WroteFrame /\ FirstFrame.DataSize >= 9
       /\ D(FirstFrame.Data, 5) = 39 /\ D(FirstFrame.Data, 6) = 4) =>
        /\ has_pending = 1
        /\ pending_response = AcceptedKeyResponse
        /\ Payload(pending_response) = <<2, 103, 4>>
        /\ observation.logged
        /\ observation.key = D(FirstFrame.Data, 7) * 256 + D(FirstFrame.Data, 8)

C5_Witness ==
    /\ WroteFrame
    /\ D(FirstFrame.Data, 7) = 170
    /\ D(FirstFrame.Data, 8) = 187
    /\ observation.key = 43707
    /\ ~observation.matches
    /\ h_writes = 1
    /\ Payload(pending_response) = <<2, 103, 4>>

\* C6 (default rule), as claimed: for every service byte and subfunction byte that
\* no earlier rule matches, the stored payload is 02, service + 0x40 as an integer,
\* subfunction.
\* The request carries a subfunction (>= 7 bytes) and is not 0x10, not 0x27/0x03,
\* not 0x27/0x04 with both key bytes (>= 9 bytes), not 0x34.
DefaultRuleCase ==
    /\ WroteFrame
    /\ FirstFrame.DataSize >= 7
    /\ D(FirstFrame.Data, 5) # 16
    /\ ~(D(FirstFrame.Data, 5) = 39 /\ D(FirstFrame.Data, 6) = 3)
    /\ ~(D(FirstFrame.Data, 5) = 39 /\ D(FirstFrame.Data, 6) = 4
           /\ FirstFrame.DataSize >= 9)
    /\ D(FirstFrame.Data, 5) # 52
C6_DefaultRuleAsClaimed ==
    DefaultRuleCase =>
        Payload(pending_response) =
            <<2, D(FirstFrame.Data, 5) + 64, D(FirstFrame.Data, 6)>>

\* C6 (default rule), amended: for every service byte and subfunction byte that no
\* earlier rule matches, the stored payload is 02, (service + 0x40) mod 256,
\* subfunction; 0x99 / 0x01 gives 02 D9 01.
C6_DefaultRule ==
    /\ DefaultRuleCase =>
           /\ has_pending = 1
           /\ Payload(pending_response) =
                  <<2, (D(FirstFrame.Data, 5) + 64) % 256, D(FirstFrame.Data, 6)>>
    /\ (WroteFrame /\ FirstFrame = Req(224, 7, 153, 1, 0, 0)) =>
           Payload(pending_response) = <<2, 217, 1>>

C6_Witness ==
    /\ WroteFrame
    /\ FirstFrame = Req(224, 7, 255, 1, 0, 0)
    /\ Payload(pending_response) = <<2, 63, 1>>

\* C7 (reference formula): the candidate key logged on a sendKey request is
\* (0x1234 * 0x4081 + 0x1234) mod 0x10000 = 0x3E68, neither the product nor the sum
\* carries out of 32 bits, and the match flag is true exactly when
\* KH * 256 + KL equals the candidate.
C7_ReferenceFormula ==
    observation.logged =>
        /\ observation.read_key = 15976
        /\ observation.read_key = (4660 * 16513 + 4660) % 65536
        /\ ~MulDWORD(DWORD(SEED), DWORD(KEY_MULT)).carry
        /\ ~AddDWORD(MulDWORD(DWORD(SEED), DWORD(KEY_MULT)), DWORD(SEED)).carry
        /\ observation.matches <=>
              (D(FirstFrame.Data, 7) * 256 + D(FirstFrame.Data, 8) = 15976)

C7_Witness ==
    /\ observation.logged
    /\ observation.matches
    /\ D(FirstFrame.Data, 7) = 62
    /\ D(FirstFrame.Data, 8) = 104
    /\ observation.read_key = 15976

\* C8 (total and always positive): every write whose first frame declares >= 6
\* bytes leaves the mailbox Full with the response of exactly one branch, and the
\* first diagnostic byte of the stored response is never 0x7F.
C8_AlwaysPositive ==
    (WroteFrame /\ FirstFrame.DataSize >= 6) =>
        /\ has_pending = 1
        /\ branch \in {"DiagnosticSessionControl", "requestSeed", "sendKey",
                       "RequestDownload", "generic"}
        /\ pending_response = ResponseTo(FirstFrame)
        /\ D(pending_response.Data, 5) # 127

\* C9 (only the first frame counts): a write carrying n >= 1 frames leaves the
\* mailbox as a write of its first frame alone leaves it: Full with the response
\* to the first frame when that frame declares >= 6 bytes, untouched otherwise,
\* whatever frames 2..n are; a write with a count of 0 or a null argument leaves
\* the mailbox untouched.
MailboxAfterFrame(f) ==
    IF f.DataSize >= 6 THEN <<ResponseTo(f), sizeof_PASSTHRU_MSG, 1>> ELSE mailbox
C9_FirstFrameStep ==
    IsWrite' =>
        IF WroteFrame' THEN mailbox' = MailboxAfterFrame(FirstFrame')
        ELSE UNCHANGED mailbox
C9_FirstFrameOnly == [][C9_FirstFrameStep]_vars

C9_Witness ==
    /\ WroteFrame
    /\ call.num = 2
    /\ FirstFrame.DataSize < 6
    /\ call.msgs[2].DataSize >= 6
    /\ has_pending = 0
    /\ h_written = <<>>

\* C10 (never visibly fails): every entry point returns STATUS_NOERROR for every
\* input, and PassThruOpen and PassThruConnect, given a pointer, always store the
\* same device id 1 and channel id 1.
C10_NeverFails ==
    /\ ret = STATUS_NOERROR
    /\ (call.name \in {"PassThruOpen", "PassThruConnect"} /\ call.hasOut) =>
           (out.wroteId /\ out.id = 1)
    /\ g_device_id = 1
    /\ g_channel_id = 1

C10_Witness ==
    /\ WroteFrame
    /\ FirstFrame.DataSize = 0
    /\ has_pending = 1
    /\ ret = STATUS_NOERROR

\* C11 (key observation needs both key bytes): a key is logged only for a
\* 0x27 / 0x04 request that declares both key bytes (>= 9 bytes); a 0x27 / 0x04
\* request of 7 or 8 bytes logs no key and runs the default branch.
C11_ObservationNeedsBothKeyBytes ==
    /\ observation.logged =>
           /\ WroteFrame
           /\ D(FirstFrame.Data, 5) = 39
           /\ D(FirstFrame.Data, 6) = 4
           /\ FirstFrame.DataSize >= 9
    /\ (WroteFrame /\ FirstFrame.DataSize \in {7, 8}
          /\ D(FirstFrame.Data, 5) = 39 /\ D(FirstFrame.Data, 6) = 4) =>
           (~observation.logged /\ branch = "generic")

\* C12 (only declared bytes count): the stored response and the key logged for a
\* written request of >= 6 bytes are those of the same request with any other
\* bytes at the indices from DataSize on.
FillBytes == {0, 3, 4}
Refill(f, b) == [f EXCEPT !.Data = [i \in 1..DataLen |-> IF i <= f.DataSize THEN @[i] ELSE b]]
ObservationFor(f) ==
    IF UdsRule(uds_svc_of(f.Data), uds_sf_of(f.Data), f.DataSize) = "sendKey"
    THEN KeyObservation(f.Data) ELSE NoObservation
C12_OnlyDeclaredBytes ==
    (WroteFrame /\ FirstFrame.DataSize >= 6) =>
        \A b \in FillBytes :
            /\ pending_response = ResponseTo(Refill(FirstFrame, b))
            /\ observation = ObservationFor(Refill(FirstFrame, b))

\* C13 (wire layout): whenever the mailbox is Full, byte 4 of the stored frame is
\* the number n of diagnostic bytes after it, n is 2, 3 or 4, DataSize is 5 + n,
\* and every byte of the buffer after the last diagnostic byte is zero, also when
\* a shorter response was stored over a longer one.
C13_WireLayout ==
    has_pending = 1 =>
        LET n == D(pending_response.Data, 4)
        IN  /\ n \in {2, 3, 4}
            /\ pending_response.DataSize = 5 + n
            /\ \A i \in (5 + n)..(DataLen - 1) : D(pending_response.Data, i) = 0
            /\ pending_response_len = sizeof_PASSTHRU_MSG

C13_Witness ==
    /\ has_pending = 1
    /\ h_writes = 2
    /\ WroteFrame
    /\ FirstFrame = SessionControlRequest
    /\ pending_response.DataSize = 7
    /\ D(pending_response.Data, 7) = 0
    /\ D(pending_response.Data, 8) = 0

\* C14 (arbitration id): the stored response starts 00 00 07 E8, a request of
\* >= 6 bytes is answered whatever its own bytes 0..3 are, and the stored response
\* is that of the same request with any other bytes 0..3.
ArbIds == {<<0, 0, 7, 224>>, <<0, 0, 7, 225>>, <<255, 255, 255, 255>>, <<0, 0, 0, 0>>,
           <<16, 39, 3, 52>>}
WithArb(f, id) == [f EXCEPT !.Data = [i \in 1..DataLen |-> IF i <= 4 THEN id[i] ELSE @[i]]]
C14_ArbitrationId ==
    /\ has_pending = 1 => SubSeq(pending_response.Data, 1, 4) = <<0, 0, 7, 232>>
    /\ (WroteFrame /\ FirstFrame.DataSize >= 6) =>
           /\ has_pending = 1
           /\ \A id \in ArbIds : pending_response = ResponseTo(WithArb(FirstFrame, id))

C14_Witness ==
    /\ WroteFrame
    /\ FirstFrame = Req(225, 7, 16, 3, 0, 0)
    /\ has_pending = 1
    /\ pending_response = ResponseTo(SessionControlRequest)
    /\ SubSeq(pending_response.Data, 1, 4) = <<0, 0, 7, 232>>

\* C15 (fixed rows): a request with service 0x10 and any subfunction sf stores
\* payload 02 50 sf through the DiagnosticSessionControl branch, and a request
\* with service 0x34 stores payload 03 74 20 0F through the RequestDownload
\* branch, for every subfunction byte and whatever the trailing bytes; neither
\* logs a key.
C15_FixedRows ==
    /\ (WroteFrame /\ FirstFrame.DataSize >= 7 /\ D(FirstFrame.Data, 5) = 16) =>
           /\ has_pending = 1
           /\ branch = "DiagnosticSessionControl"
           /\ Payload(pending_response) = <<2, 80, D(FirstFrame.Data, 6)>>
           /\ ~observation.logged
    /\ (WroteFrame /\ FirstFrame.DataSize >= 7 /\ D(FirstFrame.Data, 5) = 52) =>
           /\ has_pending = 1
           /\ branch = "RequestDownload"
           /\ Payload(pending_response) = <<3, 116, 32, 15>>
           /\ ~observation.logged

C15_Witness ==
    /\ WroteFrame
    /\ FirstFrame = Req(224, 9, 16, 4, 170, 187)
    /\ Payload(pending_response) = <<2, 80, 4>>
    /\ branch = "DiagnosticSessionControl"

\* C16 (only write and read touch the mailbox): a call of any other entry point
\* leaves the buffer, its length and the flag as they were, and a read asking for
\* >= 1 message from a Full mailbox hands over the buffer as it stands; so a
\* response stored before disconnect, close and reconnect is returned by the
\* first read afterwards.
C16_MailboxFrameStep ==
    /\ (call'.name \notin {"PassThruWriteMsgs", "PassThruReadMsgs"}) => UNCHANGED mailbox
    /\ (AskedRead' /\ has_pending = 1) =>
           (out'.num = 1 /\ out'.wroteMsg /\ out'.msg = pending_response)
C16_MailboxFrame == [][C16_MailboxFrameStep]_vars

C16_Witness ==
    /\ call.name = "PassThruDisconnect"
    /\ has_pending = 1
    /\ h_reads = 0
    /\ pending_response = ResponseTo(SessionControlRequest)

\* C17 (a dropped short frame leaves an unread response alone): after a write
\* whose first frame declares fewer than 6 bytes, a response stored and not yet
\* read is still there unchanged; and every message a read hands over is the
\* response to the last request of >= 6 bytes written, handed over for the first
\* time since that write.
C17_ShortFrameKeepsResponse ==
    /\ (WroteFrame /\ FirstFrame.DataSize < 6 /\ h_written # <<>> /\ h_reads = 0) =>
           (has_pending = 1 /\ pending_response = ResponseTo(h_written[1]))
    /\ (IsRead /\ out.wroteMsg) =>
           /\ AskedRead
           /\ h_written # <<>>
           /\ h_reads = 1
           /\ out.msg = ResponseTo(h_written[1])

C17_Witness ==
    /\ WroteFrame
    /\ FirstFrame = Req(224, 5, 39, 3, 170, 187)
    /\ h_written = <<SessionControlRequest>>
    /\ h_reads = 0
    /\ has_pending = 1
    /\ Payload(pending_response) = <<2, 80, 3>>

\* C18 (a read drains only what it delivers): a read from a Full mailbox with a
\* count of 0 or a null message pointer reports 0 messages through the count
\* pointer and leaves the mailbox as it was.
C18_ReadDrainsStep ==
    (IsRead' /\ has_pending = 1 /\ call'.hasNum /\ (~call'.hasMsg \/ call'.num = 0)) =>
        (out'.num = 0 /\ ~out'.wroteMsg /\ UNCHANGED mailbox)
C18_ReadDrains == [][C18_ReadDrainsStep]_vars

\* ------------------------------------------------- two threads, no lock
\* The source takes no lock anywhere, so a thread inside PassThruWriteMsgs and a
\* thread inside PassThruReadMsgs interleave statement by statement.  Each step
\* below is one statement of the source; the memcpy of the read path, which is not
\* atomic, is cut once, between the header fields and Data.  The history
\* variables count serialized calls and are left alone.
ThreadFrames == {SessionControlRequest, Req(224, 7, 39, 3, 0, 0)}

ThreadFrame == <<ids, history, call, ret, out>>

\* Lines 157-171 and the matching branch up to its resp[] initialiser: only the
\* arguments and locals are read.
Writer_enter(m) ==
    /\ writer.pc = "idle"
    /\ LET rule == UdsRule(uds_svc_of(m.Data), uds_sf_of(m.Data), m.DataSize)
       IN  /\ writer' = [pc |-> "memset", m |-> m,
                         resp |-> SubSeq(UdsResp(rule, uds_svc_of(m.Data), uds_sf_of(m.Data)),
                                         1, UdsRespLen(rule))]
           /\ branch' = rule
           /\ observation' = IF rule = "sendKey" THEN KeyObservation(m.Data)
                             ELSE NoObservation
    /\ UNCHANGED <<mailbox, reader, ThreadFrame>>

WriterStep(from, to) ==
    /\ writer.pc = from
    /\ writer' = [writer EXCEPT !.pc = to]
    /\ UNCHANGED <<reader, branch, observation, ThreadFrame>>

\* memset(msg, 0, sizeof(PASSTHRU_MSG));
Writer_memset ==
    /\ WriterStep("memset", "ProtocolID")
    /\ pending_response' = ZeroMsg
    /\ UNCHANGED <<pending_response_len, has_pending>>

\* msg->ProtocolID = ISO15765;
Writer_ProtocolID ==
    /\ WriterStep("ProtocolID", "CanId")
    /\ pending_response' = [pending_response EXCEPT !.ProtocolID = ISO15765]
    /\ UNCHANGED <<pending_response_len, has_pending>>

\* msg->Data[0] = 0x00; ... msg->Data[3] = 0xE8;
Writer_CanId ==
    /\ WriterStep("CanId", "memcpy")
    /\ pending_response' =
           [pending_response EXCEPT !.Data = [i \in 1..DataLen |->
                                                IF i <= 4 THEN ResponseCanId[i] ELSE @[i]]]
    /\ UNCHANGED <<pending_response_len, has_pending>>

\* memcpy(msg->Data + 4, uds_payload, uds_len);
Writer_memcpy ==
    /\ WriterStep("memcpy", "DataSize")
    /\ pending_response' =
           [pending_response EXCEPT !.Data = [i \in 1..DataLen |->
                                                IF i > 4 /\ i <= 4 + Len(writer.resp)
                                                THEN writer.resp[i - 4] ELSE @[i]]]
    /\ UNCHANGED <<pending_response_len, has_pending>>

\* msg->DataSize = 4 + uds_len;
Writer_DataSize ==
    /\ WriterStep("DataSize", "RxStatus")
    /\ pending_response' = [pending_response EXCEPT !.DataSize = 4 + Len(writer.resp)]
    /\ UNCHANGED <<pending_response_len, has_pending>>

\* msg->RxStatus = 0;
Writer_RxStatus ==
    /\ WriterStep("RxStatus", "len")
    /\ pending_response' = [pending_response EXCEPT !.RxStatus = 0]
    /\ UNCHANGED <<pending_response_len, has_pending>>

\* pending_response_len = sizeof(PASSTHRU_MSG);
Writer_len ==
    /\ WriterStep("len", "flag")
    /\ pending_response_len' = sizeof_PASSTHRU_MSG
    /\ UNCHANGED <<pending_response, has_pending>>

\* has_pending = 1;
Writer_flag ==
    /\ WriterStep("flag", "return")
    /\ has_pending' = 1
    /\ UNCHANGED <<pending_response, pending_response_len>>

\* return STATUS_NOERROR;
Writer_return ==
    /\ writer.pc = "return"
    /\ writer' = WriterIdle
    /\ call' = Call("PassThruWriteMsgs", TRUE, <<writer.m>>, TRUE, 1, FALSE)
    /\ ret' = STATUS_NOERROR
    /\ out' = NoOut(1)
    /\ UNCHANGED <<mailbox, ids, history, reader, branch, observation>>

\* if (!pMsg || !pNumMsgs) return STATUS_NOERROR;  with both pointers given
Reader_enter(num) ==
    /\ reader.pc = "idle"
    /\ reader' = [pc |-> "test", msg |-> ZeroMsg, num |-> num, wrote |-> FALSE]
    /\ UNCHANGED <<mailbox, writer, branch, observation, ThreadFrame>>

ReaderStep(from) ==
    /\ reader.pc = from
    /\ UNCHANGED <<writer, branch, observation, ThreadFrame>>

\* if (has_pending && *pNumMsgs > 0)
Reader_test ==
    /\ ReaderStep("test")
    /\ reader' = [reader EXCEPT !.pc = IF ReadDelivers(has_pending, reader.num)
                                       THEN "memcpy" ELSE "none"]
    /\ UNCHANGED mailbox

\* memcpy(&pMsg[0], pending_response, sizeof(PASSTHRU_MSG));  the six DWORD fields
Reader_memcpy_fields ==
    /\ ReaderStep("memcpy")
    /\ reader' = [reader EXCEPT !.pc = "memcpy_Data", !.wrote = TRUE,
                                !.msg = [pending_response EXCEPT !.Data = reader.msg.Data]]
    /\ UNCHANGED mailbox

\* memcpy(&pMsg[0], pending_response, sizeof(PASSTHRU_MSG));  Data
Reader_memcpy_Data ==
    /\ ReaderStep("memcpy_Data")
    /\ reader' = [reader EXCEPT !.pc = "count",
                                !.msg = [@ EXCEPT !.Data = pending_response.Data]]
    /\ UNCHANGED mailbox

\* *pNumMsgs = 1;
Reader_count ==
    /\ ReaderStep("count")
    /\ reader' = [reader EXCEPT !.pc = "clear", !.num = 1]
    /\ UNCHANGED mailbox

\* has_pending = 0;
Reader_clear ==
    /\ ReaderStep("clear")
    /\ reader' = [reader EXCEPT !.pc = "return"]
    /\ has_pending' = FlagAfterTake(has_pending)
    /\ UNCHANGED <<pending_response, pending_response_len>>

\* *pNumMsgs = 0;
Reader_none ==
    /\ ReaderStep("none")
    /\ reader' = [reader EXCEPT !.pc = "return", !.num = 0]
    /\ UNCHANGED mailbox

\* return STATUS_NOERROR;
Reader_return ==
    /\ reader.pc = "return"
    /\ reader' = ReaderIdle
    /\ call' = Call("PassThruReadMsgs", TRUE, <<>>, TRUE, 1, FALSE)
    /\ ret' = STATUS_NOERROR
    /\ out' = [NoOut(reader.num) EXCEPT !.wroteMsg = reader.wrote, !.msg = reader.msg]
    /\ branch' = "none"
    /\ observation' = NoObservation
    /\ UNCHANGED <<mailbox, ids, history, writer>>

NextThreads ==
    \/ \E m \in ThreadFrames : Writer_enter(m)
    \/ Writer_memset
    \/ Writer_ProtocolID
    \/ Writer_CanId
    \/ Writer_memcpy
    \/ Writer_DataSize
    \/ Writer_RxStatus
    \/ Writer_len
    \/ Writer_flag
    \/ Writer_return
    \/ Reader_enter(1)
    \/ Reader_test
    \/ Reader_memcpy_fields
    \/ Reader_memcpy_Data
    \/ Reader_count
    \/ Reader_clear
    \/ Reader_none
    \/ Reader_return

SpecThreads == Init /\ [][NextThreads]_vars

\* C19 (atomicity under two threads): when a thread in PassThruWriteMsgs and a
\* thread in PassThruReadMsgs interleave statement by statement, every read that
\* reports 1 message hands over the complete response to one of the written
\* requests, never a zeroed, half-built or mixed frame.
C19_ReadsWholeResponses ==
    (IsRead /\ out.wroteMsg /\ out.num = 1) =>
        \E m \in ThreadFrames : out.msg = ResponseTo(m)

====
